---- MODULE Spec2Model ----
(***************************************************************************)
(* Model of wllvm/copaarglistfilter.py: CopaArgumentListFilter, the        *)
(* classifier of a compiler command line.  The constructor's main loop is  *)
(* modelled one iteration per step; tokens are TLA+ strings and the        *)
(* regular expressions, os.path.split, os.path.splitext and os.path.join   *)
(* are computed character by character as Python computes them.            *)
(*                                                                         *)
(* Python's None is the empty sequence << >> and a set optional value x is *)
(* the one-element sequence << x >>.                                       *)
(*                                                                         *)
(* Domain of the tokens: a token is a string of printable ASCII            *)
(* characters, the characters a TLA+ string holds, and has no newline.     *)
(* On such a token '.' matches every character, '$' matches only at the    *)
(* end, and \d matches the ten ASCII digits.  Python matches \d on a str   *)
(* against every Unicode decimal digit (ARABIC-INDIC, FULLWIDTH, ...): a   *)
(* token with such a character, for example a.so. followed by U+0661,      *)
(* which lines 77-78 take for a versioned library, is outside this domain  *)
(* and no definition below speaks for it.                                  *)
(***************************************************************************)
EXTENDS Integers, Sequences, FiniteSets, TLC

\* Every token list over the alphabet up to this length is classified.
MaxLen == 3

\* Every path over the path alphabet up to this length is given to
\* getArtifactNames.
MaxPath == 3

(***************************************************************************)
(* Strings.                                                                *)
(***************************************************************************)
Char(s, i) == SubSeq(s, i, i)

\* The character class [0-9].
Digits == {"0", "1", "2", "3", "4", "5", "6", "7", "8", "9"}

\* The character class \d of lines 77-78, on the characters of a token of
\* the domain: of the Unicode decimal digits Python's \d matches, the ASCII
\* characters are these ten.
DecimalDigits == Digits

EndsWith(s, suf) ==
  /\ Len(s) >= Len(suf)
  /\ SubSeq(s, Len(s) - Len(suf) + 1, Len(s)) = suf

StartsWith(s, pre) ==
  /\ Len(s) >= Len(pre)
  /\ SubSeq(s, 1, Len(pre)) = pre

\* str.rfind(c) for a one-character c, 0-based as in Python, -1 when absent.
RECURSIVE RFindFrom(_, _, _)
RFindFrom(s, c, i) ==
  IF i = 0 THEN -1
  ELSE IF Char(s, i) = c THEN i - 1
  ELSE RFindFrom(s, c, i - 1)

RFind(s, c) == RFindFrom(s, c, Len(s))

\* Python slices p[:i] and p[i:] for 0 <= i <= len(p).
SliceTo(p, i) == SubSeq(p, 1, i)
SliceFrom(p, i) == SubSeq(p, i + 1, Len(p))

\* All characters of s[from..to] (1-based, inclusive) lie in the set cs.
AllIn(s, from, to, cs) == \A i \in from..to : Char(s, i) \in cs

(***************************************************************************)
(* The regular expressions of the rule tables, each matched with re.match  *)
(* (anchored by its own ^ and $).                                          *)
(***************************************************************************)
\* ^.+\.(e1|e2|...)$ : some extension of exts ends s, after a dot that has
\* at least one character before it.
MatchDotSuffix(s, exts) ==
  \E e \in exts : /\ EndsWith(s, "." \o e)
                  /\ Len(s) > Len(e) + 1

SourceExts == {"c", "cc", "cpp", "C", "cxx", "i", "s", "S", "bc"}

\* [fF](|[0-9][0-9]|or|OR|pp|PP), as the text after the last dot matched.
IsFortranExt(e) ==
  /\ Len(e) >= 1
  /\ Char(e, 1) \in {"f", "F"}
  /\ \/ Len(e) = 1
     \/ Len(e) = 3 /\ AllIn(e, 2, 3, Digits)
     \/ Len(e) = 3 /\ SubSeq(e, 2, 3) \in {"or", "OR", "pp", "PP"}

\* ^.+\.([fF](|[0-9][0-9]|or|OR|pp|PP))$ : the extension is 1 or 3 long.
MatchFortran(s) ==
  \E n \in {1, 3} :
    /\ Len(s) > n + 1
    /\ Char(s, Len(s) - n) = "."
    /\ IsFortranExt(SubSeq(s, Len(s) - n + 1, Len(s)))

ObjectExts == {"o", "lo", "So", "so", "po", "a", "dylib"}

\* Number of trailing (\.\d) groups of s, an ASCII token.
RECURSIVE VersionGroups(_)
VersionGroups(s) ==
  IF /\ Len(s) >= 2
     /\ Char(s, Len(s) - 1) = "."
     /\ Char(s, Len(s)) \in DecimalDigits
  THEN 1 + VersionGroups(SubSeq(s, 1, Len(s) - 2))
  ELSE 0

\* ^.+\.(b1|b2|..)(\.\d)+$ : no base ends in a (\.\d) group, so the groups
\* matched are all the trailing ones.
MatchVersioned(s, bases) ==
  LET k == VersionGroups(s)
  IN  /\ k >= 1
      /\ MatchDotSuffix(SubSeq(s, 1, Len(s) - 2 * k), bases)

\* ^-O[1-9]+$
MatchOptNonZero(s) ==
  /\ Len(s) >= 3
  /\ StartsWith(s, "-O")
  /\ AllIn(s, 3, Len(s), Digits \ {"0"})

\* ^-O[0-9][0-9]+$
MatchOptDigits(s) ==
  /\ Len(s) >= 4
  /\ StartsWith(s, "-O")
  /\ AllIn(s, 3, Len(s), Digits)

\* ^-[ILD]$ (a caller-supplied pattern)
MatchSearchFlag(s) ==
  /\ Len(s) = 2
  /\ Char(s, 1) = "-"
  /\ Char(s, 2) \in {"I", "L", "D"}

\* The keys of the pattern tables, as written in the source.
PatSource == "^.+\\.(c|cc|cpp|C|cxx|i|s|S|bc)$"
PatFortran == "^.+\\.([fF](|[0-9][0-9]|or|OR|pp|PP))$"
PatObject == "^.+\\.(o|lo|So|so|po|a|dylib)$"
PatDylibVer == "^.+\\.dylib(\\.\\d)+$"
PatSoVer == "^.+\\.(So|so)(\\.\\d)+$"
PatOptNonZero == "^-O[1-9]+$"
PatOptDigits == "^-O[0-9][0-9]+$"
PatSearchFlag == "^-[ILD]$"

\* re.match(pattern, item) is not None.
ReMatch(pattern, item) ==
  CASE pattern = PatSource -> MatchDotSuffix(item, SourceExts)
    [] pattern = PatFortran -> MatchFortran(item)
    [] pattern = PatObject -> MatchDotSuffix(item, ObjectExts)
    [] pattern = PatDylibVer -> MatchVersioned(item, {"dylib"})
    [] pattern = PatSoVer -> MatchVersioned(item, {"So", "so"})
    [] pattern = PatOptNonZero -> MatchOptNonZero(item)
    [] pattern = PatOptDigits -> MatchOptDigits(item)
    [] pattern = PatSearchFlag -> MatchSearchFlag(item)
    [] OTHER -> FALSE

\* re.search('\\.(s|S)$', infile) is not None.
SearchAsmSuffix(infile) == EndsWith(infile, ".s") \/ EndsWith(infile, ".S")

(***************************************************************************)
(* Rule tables.  A rule is (arity, handler); a handler is named by the     *)
(* method it is.  The exact-match table is a function from tokens; the     *)
(* pattern table is a sequence in the dictionary's insertion order, which  *)
(* is the order the loop at line 141 tries the patterns in.                *)
(***************************************************************************)
Rule(a, h) == [arity |-> a, handler |-> h]

PatRule(p, a, h) == [pattern |-> p, arity |-> a, handler |-> h]

StartGroup == "-Wl,--start-group"

EndGroup == "-Wl,--end-group"

defaultArgExactMatches ==
  ("-" :> Rule(0, "standardInCallback")) @@
  ("-o" :> Rule(1, "outputFileCallback")) @@
  ("-c" :> Rule(0, "compileOnlyCallback")) @@
  ("-E" :> Rule(0, "preprocessOnlyCallback")) @@
  ("-S" :> Rule(0, "assembleOnlyCallback")) @@
  ("--verbose" :> Rule(0, "verboseFlagCallback")) @@
  ("--version" :> Rule(0, "compileOnlyCallback")) @@
  ("-v" :> Rule(0, "compileOnlyCallback")) @@
  ("-O" :> Rule(0, "warningLinkUnaryCallback")) @@
  ("-O0" :> Rule(0, "warningLinkUnaryCallback")) @@
  ("-O1" :> Rule(0, "warningLinkUnaryCallback")) @@
  ("-O2" :> Rule(0, "warningLinkUnaryCallback")) @@
  ("-O3" :> Rule(0, "warningLinkUnaryCallback")) @@
  ("-Os" :> Rule(0, "warningLinkUnaryCallback")) @@
  ("-Ofast" :> Rule(0, "warningLinkUnaryCallback")) @@
  ("-Og" :> Rule(0, "warningLinkUnaryCallback"))

defaultArgPatterns ==
  << PatRule(PatSource, 0, "inputFileCallback"),
     PatRule(PatFortran, 0, "inputFileCallback"),
     PatRule(PatObject, 0, "objectFileCallback"),
     PatRule(PatDylibVer, 0, "objectFileCallback"),
     PatRule(PatSoVer, 0, "objectFileCallback"),
     PatRule(PatOptNonZero, 0, "warningLinkUnaryCallback"),
     PatRule(PatOptDigits, 0, "warningLinkUnaryCallback") >>

\* Mutant of ExactUpdate: a key of both tables keeps its default rule.
ExactUpdateKeepDefault(d, o) ==
  [k \in (DOMAIN d) \cup (DOMAIN o) |-> IF k \in DOMAIN d THEN d[k] ELSE o[k]]

\* dict(d).update(o) on the exact-match tables.
ExactUpdate(d, o) ==
  [k \in (DOMAIN d) \cup (DOMAIN o) |-> IF k \in DOMAIN o THEN o[k] ELSE d[k]]

\* dict(d).update(o) on the pattern tables: a key of d keeps its place and
\* takes o's value, a new key goes to the end, in o's order.
PatternUpdate(d, o) ==
  LET keysD == {d[i].pattern : i \in DOMAIN d}
      repl(i) == IF \E j \in DOMAIN o : o[j].pattern = d[i].pattern
                 THEN o[CHOOSE j \in DOMAIN o : o[j].pattern = d[i].pattern]
                 ELSE d[i]
  IN  [i \in DOMAIN d |-> repl(i)] \o
      SelectSeq(o, LAMBDA r : r.pattern \notin keysD)

argExactMatches(exactOverrides) ==
  ExactUpdate(defaultArgExactMatches, exactOverrides)

argPatterns(patternOverrides) ==
  PatternUpdate(defaultArgPatterns, patternOverrides)

(***************************************************************************)
(* The classifier object.                                                  *)
(***************************************************************************)
None == << >>

Some(x) == << x >>

\* The fields as lines 85-111 set them.
NewFilter(inputList0) ==
  [ inputFiles |-> << >>,
    objectFiles |-> << >>,
    outputFilename |-> None,
    compileArgs |-> << >>,
    linkArgs |-> << >>,
    forbiddenArgs |-> << >>,
    isVerbose |-> FALSE,
    isDependencyOnly |-> FALSE,
    isPreprocessOnly |-> FALSE,
    isAssembleOnly |-> FALSE,
    isAssembly |-> FALSE,
    isCompileOnly |-> FALSE,
    isEmitLLVM |-> FALSE,
    isStandardIn |-> FALSE,
    inputArgs |-> inputList0 ]

(***************************************************************************)
(* The handlers.  s is the object, flag the matched token, a the trailing  *)
(* tokens _shiftArgs popped (a[1] is the argument of a binary handler).    *)
(***************************************************************************)
standardInCallback(s, flag) == [s EXCEPT !.isStandardIn = TRUE]

\* Mutant of inputFileCallback: the file is put at the front of the list.
inputFileCallbackPrepend(s, infile) ==
  [s EXCEPT !.inputFiles = <<infile>> \o @,
            !.isAssembly = IF SearchAsmSuffix(infile) THEN TRUE ELSE @]

\* Mutant of inputFileCallback: every input file counts as assembly.
inputFileCallbackAlwaysAssembly(s, infile) ==
  [s EXCEPT !.inputFiles = Append(@, infile), !.isAssembly = TRUE]

inputFileCallback(s, infile) ==
  [s EXCEPT !.inputFiles = Append(@, infile),
            !.isAssembly = IF SearchAsmSuffix(infile) THEN TRUE ELSE @]

outputFileCallback(s, flag, filename) ==
  [s EXCEPT !.outputFilename = Some(filename)]

objectFileCallback(s, objfile) == [s EXCEPT !.objectFiles = Append(@, objfile)]

preprocessOnlyCallback(s, flag) == [s EXCEPT !.isPreprocessOnly = TRUE]

dependencyOnlyCallback(s, flag) ==
  [s EXCEPT !.isDependencyOnly = TRUE, !.compileArgs = Append(@, flag)]

\* Mutant of assembleOnlyCallback: the flag of a similar name is set.
assembleOnlyCallbackIsAssembly(s, flag) == [s EXCEPT !.isAssembly = TRUE]

assembleOnlyCallback(s, flag) == [s EXCEPT !.isAssembleOnly = TRUE]

verboseFlagCallback(s, flag) == [s EXCEPT !.isVerbose = TRUE]

compileOnlyCallback(s, flag) == [s EXCEPT !.isCompileOnly = TRUE]

emitLLVMCallback(s, flag) ==
  [s EXCEPT !.isEmitLLVM = TRUE, !.isCompileOnly = TRUE]

linkUnaryCallback(s, flag) == [s EXCEPT !.linkArgs = Append(@, flag)]

\* Mutant of compileUnaryCallback: the flag is also passed to the linker.
compileUnaryCallbackAlsoLinks(s, flag) ==
  [s EXCEPT !.compileArgs = Append(@, flag), !.linkArgs = Append(@, flag)]

compileUnaryCallback(s, flag) == [s EXCEPT !.compileArgs = Append(@, flag)]

\* Mutant of warningLinkUnaryCallback: the flag is passed on to the linker.
warningLinkUnaryCallbackLinks(s, flag) ==
  [s EXCEPT !.linkArgs = Append(@, flag)]

warningLinkUnaryCallback(s, flag) ==
  [s EXCEPT !.forbiddenArgs = Append(@, flag)]

defaultBinaryCallback(s, flag, arg) == s

dependencyBinaryCallback(s, flag, arg) ==
  [s EXCEPT !.isDependencyOnly = TRUE,
            !.compileArgs = Append(Append(@, flag), arg)]

compileBinaryCallback(s, flag, arg) ==
  [s EXCEPT !.compileArgs = Append(Append(@, flag), arg)]

linkBinaryCallback(s, flag, arg) ==
  [s EXCEPT !.linkArgs = Append(Append(@, flag), arg)]

linkingGroupCallback(s, args) == [s EXCEPT !.linkArgs = @ \o args]

compileLinkUnaryCallback(s, flag) ==
  [s EXCEPT !.compileArgs = Append(@, flag), !.linkArgs = Append(@, flag)]

\* handler(self, currentItem, *flagArgs), lines 126 and 144.  The tables of
\* this model pair every handler with the arity its signature takes.
CallHandler(h, s, flag, a) ==
  CASE h = "standardInCallback" -> standardInCallback(s, flag)
    [] h = "inputFileCallback" -> inputFileCallback(s, flag)
    [] h = "outputFileCallback" -> outputFileCallback(s, flag, a[1])
    [] h = "objectFileCallback" -> objectFileCallback(s, flag)
    [] h = "preprocessOnlyCallback" -> preprocessOnlyCallback(s, flag)
    [] h = "dependencyOnlyCallback" -> dependencyOnlyCallback(s, flag)
    [] h = "assembleOnlyCallback" -> assembleOnlyCallback(s, flag)
    [] h = "verboseFlagCallback" -> verboseFlagCallback(s, flag)
    [] h = "compileOnlyCallback" -> compileOnlyCallback(s, flag)
    [] h = "emitLLVMCallback" -> emitLLVMCallback(s, flag)
    [] h = "linkUnaryCallback" -> linkUnaryCallback(s, flag)
    [] h = "compileUnaryCallback" -> compileUnaryCallback(s, flag)
    [] h = "warningLinkUnaryCallback" -> warningLinkUnaryCallback(s, flag)
    [] h = "defaultBinaryCallback" -> defaultBinaryCallback(s, flag, a[1])
    [] h = "dependencyBinaryCallback" -> dependencyBinaryCallback(s, flag, a[1])
    [] h = "compileBinaryCallback" -> compileBinaryCallback(s, flag, a[1])
    [] h = "linkBinaryCallback" -> linkBinaryCallback(s, flag, a[1])
    [] h = "compileLinkUnaryCallback" -> compileLinkUnaryCallback(s, flag)

(***************************************************************************)
(* The constructor's loop, lines 114-151.                                  *)
(***************************************************************************)
\* _shiftArgs(nargs) on the queue q: the nargs front tokens are popped; a
\* popleft() on the empty queue raises IndexError, with every token popped
\* so far gone from the queue.
\* Mutant of ShiftArgs: the trailing tokens are read but stay in the queue.
ShiftArgsPeek(q, nargs) ==
  IF Len(q) >= nargs
  THEN [raised |-> FALSE, ret |-> SubSeq(q, 1, nargs), rest |-> q]
  ELSE [raised |-> TRUE, ret |-> q, rest |-> << >>]

\* Mutant of ShiftArgs: an underflow is padded with empty tokens.
ShiftArgsPadded(q, nargs) ==
  IF Len(q) >= nargs
  THEN [raised |-> FALSE, ret |-> SubSeq(q, 1, nargs),
        rest |-> SubSeq(q, nargs + 1, Len(q))]
  ELSE [raised |-> FALSE, ret |-> q \o [i \in 1..(nargs - Len(q)) |-> ""],
        rest |-> << >>]

ShiftArgs(q, nargs) ==
  IF Len(q) >= nargs
  THEN [raised |-> FALSE, ret |-> SubSeq(q, 1, nargs),
        rest |-> SubSeq(q, nargs + 1, Len(q))]
  ELSE [raised |-> TRUE, ret |-> q, rest |-> << >>]

\* Mutant of CollectGroup: the end marker is popped but not collected.
RECURSIVE CollectGroupNoMarker(_, _)
CollectGroupNoMarker(q, g) ==
  IF q = << >>
  THEN [linkingGroup |-> g, rest |-> << >>, terminated |-> FALSE]
  ELSE IF Head(q) = EndGroup
       THEN [linkingGroup |-> g, rest |-> Tail(q), terminated |-> TRUE]
       ELSE CollectGroupNoMarker(Tail(q), Append(g, Head(q)))

\* The inner loop of lines 130-135, from the group g collected so far.
RECURSIVE CollectGroup(_, _)
CollectGroup(q, g) ==
  IF q = << >>
  THEN [linkingGroup |-> g, rest |-> << >>, terminated |-> FALSE]
  ELSE LET groupCurrent == Head(q)
           g2 == Append(g, groupCurrent)
       IN  IF groupCurrent = EndGroup
           THEN [linkingGroup |-> g2, rest |-> Tail(q), terminated |-> TRUE]
           ELSE CollectGroup(Tail(q), g2)

\* The patterns of the table that match the item, by their place in it.
Matching(patterns, item) ==
  {i \in DOMAIN patterns : ReMatch(patterns[i].pattern, item)}

\* The rule the loop of lines 141-146 stops at: the first that matches.
FirstMatch(patterns, item) ==
  LET m == Matching(patterns, item)
  IN  patterns[CHOOSE i \in m : \A j \in m : i <= j]

\* Mutant of Branch: the start marker of a group is tested before the
\* exact-match table.
BranchGroupFirst(item, exact, patterns) ==
  IF item = StartGroup THEN "group"
  ELSE IF item \in DOMAIN exact THEN "exact"
  ELSE IF Matching(patterns, item) # {} THEN "pattern"
  ELSE "default"

\* Mutant of Branch: the patterns are tried before the exact-match table.
BranchPatternFirst(item, exact, patterns) ==
  IF item = StartGroup /\ item \notin DOMAIN exact THEN "group"
  ELSE IF Matching(patterns, item) # {} THEN "pattern"
  ELSE IF item \in DOMAIN exact THEN "exact"
  ELSE "default"

\* Which arm of the if / elif / else of lines 123-151 takes the item.
Branch(item, exact, patterns) ==
  IF item \in DOMAIN exact THEN "exact"
  ELSE IF item = StartGroup THEN "group"
  ELSE IF Matching(patterns, item) # {} THEN "pattern"
  ELSE "default"

\* Lines 124-126 and 143-144: pop the rule's trailing tokens, call its
\* handler.  The result is the object, whether IndexError left the
\* constructor, and the place each popped token took.
ApplyRule(s, item, rule) ==
  LET sh == ShiftArgs(s.inputArgs, rule.arity)
      popped == [s EXCEPT !.inputArgs = sh.rest]
      places == <<"flag">> \o [i \in 1..Len(sh.ret) |-> "argument"]
  IN  IF sh.raised
      THEN [self |-> popped, raised |-> TRUE, places |-> places]
      ELSE [self |-> CallHandler(rule.handler, popped, item, sh.ret),
            raised |-> FALSE, places |-> places]

\* Mutant of ApplyGroup: a group without its end marker is an error.
ApplyGroupStrict(s, item) ==
  LET c == CollectGroup(s.inputArgs, <<item>>)
  IN  IF c.terminated
      THEN [self |-> linkingGroupCallback([s EXCEPT !.inputArgs = c.rest],
                                          c.linkingGroup),
            raised |-> FALSE,
            places |-> [i \in 1..Len(c.linkingGroup) |-> "group"]]
      ELSE [self |-> [s EXCEPT !.inputArgs = c.rest], raised |-> TRUE,
            places |-> [i \in 1..Len(c.linkingGroup) |-> "group"]]

\* Lines 128-138.
ApplyGroup(s, item) ==
  LET c == CollectGroup(s.inputArgs, <<item>>)
  IN  [self |-> linkingGroupCallback([s EXCEPT !.inputArgs = c.rest],
                                     c.linkingGroup),
       raised |-> FALSE,
       places |-> [i \in 1..Len(c.linkingGroup) |-> "group"]]

\* Mutant of ApplyDefault: an unrecognized -l, -L or -Wl, token is passed
\* to the linker.
ApplyDefaultLinkerStyle(s, item) ==
  [self |-> IF \/ StartsWith(item, "-l") \/ StartsWith(item, "-L")
               \/ StartsWith(item, "-Wl,")
            THEN linkUnaryCallback(s, item)
            ELSE compileUnaryCallback(s, item),
   raised |-> FALSE, places |-> <<"default">>]

\* Mutant of ApplyDefault: an unrecognized token is dropped.
ApplyDefaultDrop(s, item) ==
  [self |-> s, raised |-> FALSE, places |-> <<"default">>]

\* Lines 149-151.
ApplyDefault(s, item) ==
  [self |-> compileUnaryCallback(s, item), raised |-> FALSE,
   places |-> <<"default">>]

\* Mutant of LoopCond: only -S ends the loop early.
LoopCondAssembleOnly(s) ==
  /\ s.inputArgs # << >>
  /\ ~s.isAssembleOnly

\* The loop condition of lines 114-116.
LoopCond(s) ==
  /\ s.inputArgs # << >>
  /\ ~(s.isAssembleOnly \/ s.isPreprocessOnly)

\* Mutant of LoopBody: an unrecognized token is read at the front of the
\* queue and left there.
LoopBodyPeekDefault(s, exact, patterns) ==
  LET currentItem == Head(s.inputArgs)
      s1 == [s EXCEPT !.inputArgs = Tail(@)]
      b == Branch(currentItem, exact, patterns)
  IN  CASE b = "exact" -> ApplyRule(s1, currentItem, exact[currentItem])
        [] b = "group" -> ApplyGroup(s1, currentItem)
        [] b = "pattern" ->
             ApplyRule(s1, currentItem, FirstMatch(patterns, currentItem))
        [] b = "default" ->
             [self |-> compileUnaryCallback(s, currentItem), raised |-> FALSE,
              places |-> <<"default">>]

\* One iteration of the loop, lines 118-151, on the object s.
LoopBody(s, exact, patterns) ==
  LET currentItem == Head(s.inputArgs)
      s1 == [s EXCEPT !.inputArgs = Tail(@)]
      b == Branch(currentItem, exact, patterns)
  IN  CASE b = "exact" -> ApplyRule(s1, currentItem, exact[currentItem])
        [] b = "group" -> ApplyGroup(s1, currentItem)
        [] b = "pattern" ->
             ApplyRule(s1, currentItem, FirstMatch(patterns, currentItem))
        [] b = "default" -> ApplyDefault(s1, currentItem)

\* The whole loop, from the object s: the object it ends with, and whether
\* IndexError left the constructor.
RECURSIVE RunLoop(_, _, _)
RunLoop(s, exact, patterns) ==
  IF ~LoopCond(s) THEN [self |-> s, raised |-> FALSE]
  ELSE LET r == LoopBody(s, exact, patterns)
       IN  IF r.raised THEN [self |-> r.self, raised |-> TRUE]
           ELSE RunLoop(r.self, exact, patterns)

\* CopaArgumentListFilter(inputList, exactMatches, patternMatches)
Construct(inputList0, exactOverrides, patternOverrides) ==
  RunLoop(NewFilter(inputList0), argExactMatches(exactOverrides),
          argPatterns(patternOverrides))

(***************************************************************************)
(* The queries on a constructed object, with the os.path functions they    *)
(* call (posixpath).                                                       *)
(***************************************************************************)
\* s.rstrip('/')
RECURSIVE RStripSep(_)
RStripSep(s) ==
  IF Len(s) > 0 /\ Char(s, Len(s)) = "/"
  THEN RStripSep(SubSeq(s, 1, Len(s) - 1))
  ELSE s

\* os.path.split(p): (head, tail), cut after the last '/'; the head loses
\* its trailing slashes unless it is slashes only.
PathSplit(p) ==
  LET i == RFind(p, "/") + 1
      head == SliceTo(p, i)
      tail == SliceFrom(p, i)
  IN  IF head # "" /\ RStripSep(head) # ""
      THEN <<RStripSep(head), tail>>
      ELSE <<head, tail>>

\* The while loop of genericpath._splitext: is some character of
\* p[filenameIndex:dotIndex] (0-based) not a dot?
RECURSIVE NonDotBefore(_, _, _)
NonDotBefore(p, filenameIndex, dotIndex) ==
  IF filenameIndex >= dotIndex THEN FALSE
  ELSE IF Char(p, filenameIndex + 1) # "." THEN TRUE
  ELSE NonDotBefore(p, filenameIndex + 1, dotIndex)

\* os.path.splitext(p): (root, ext), cut at the last dot of the last
\* component, leading dots of the component not counting.
PathSplitExt(p) ==
  LET sepIndex == RFind(p, "/")
      dotIndex == RFind(p, ".")
  IN  IF dotIndex > sepIndex /\ NonDotBefore(p, sepIndex + 1, dotIndex)
      THEN <<SliceTo(p, dotIndex), SliceFrom(p, dotIndex)>>
      ELSE <<p, "">>

\* os.path.join(a, b)
PathJoin(a, b) ==
  IF StartsWith(b, "/") THEN b
  ELSE IF a = "" \/ EndsWith(a, "/") THEN a \o b
  ELSE a \o "/" \o b

\* What a call gives back: the value returned, or the exception raised.
Returned(v) == [raised |-> "", value |-> v]

Raised(e) == [raised |-> e, value |-> << >>]

\* getOutputFilename(): self.inputFiles[0] raises IndexError on an empty
\* list.
getOutputFilename(s) ==
  IF s.outputFilename # None THEN Returned(<<s.outputFilename[1]>>)
  ELSE IF s.isCompileOnly
  THEN IF s.inputFiles = << >> THEN Raised("IndexError")
       ELSE LET base == PathSplit(s.inputFiles[1])[2]
                root == PathSplitExt(base)[1]
            IN  Returned(<<root \o ".o">>)
  ELSE Returned(<<"a.out">>)

\* getBitcodeFileName()
getBitcodeFileName(s) ==
  LET out == getOutputFilename(s)
  IN  IF out.raised # "" THEN out
      ELSE LET sp == PathSplit(out.value[1])
           IN  Returned(<<PathJoin(sp[1], "." \o sp[2] \o ".bc")>>)

\* Mutant of getArtifactNames: the object's name is hidden whatever the
\* caller asks.
getArtifactNamesAlwaysHidden(srcFile, hidden) ==
  LET srcbase == PathSplit(srcFile)[2]
      srcroot == PathSplitExt(srcbase)[1]
  IN  Returned(<<"." \o srcroot \o ".o", "." \o srcroot \o ".o.bc">>)

\* getArtifactNames(srcFile, hidden)
getArtifactNames(srcFile, hidden) ==
  LET srcbase == PathSplit(srcFile)[2]
      srcroot == PathSplitExt(srcbase)[1]
      objbase == IF hidden THEN "." \o srcroot \o ".o" ELSE srcroot \o ".o"
      bcbase == "." \o srcroot \o ".o.bc"
  IN  Returned(<<objbase, bcbase>>)

(***************************************************************************)
(* The inputs of a run.                                                    *)
(***************************************************************************)
Tokens ==
  {"-o", "-c", "-E", "-S", "-O2", "-O12", StartGroup, EndGroup,
   "d/x.c", "y.s", "a.o", "-I"}

\* Longer command lines: the examples of the documentation and lines with
\* a linker group that has tokens inside and after it.
Examples ==
  { <<"-c", "foo.c">>,
    <<"-o", "out", "a.c", "-O2">>,
    <<StartGroup, "-la", "-lb", EndGroup>>,
    <<"libfoo.so.1.2.3">>,
    <<"-v">>,
    <<"--version">>,
    <<"-c", "foo.o">>,
    <<"-c", StartGroup, "a.o", "-O2", EndGroup, "d/x.c", "-lm", "-o", "out">>,
    <<StartGroup, "y.s", "-E", EndGroup, "-I", "inc", "-S", "-c">>,
    <<"-", "--verbose", StartGroup, "-o", EndGroup, "-O12", "-o">>,
    <<"x.lo", "liby.a", "libw.dylib", "libv.so", "libssl.so.1.1">>,
    <<"-c", "libstdc++.so.6.0.28", "a.o">>,
    <<"-M", "d/x.c", "-o", "out">>,
    <<"boot.S", "d/x.c">>,
    <<"m.f90", "d/x.c", "-c">>,
    <<"-lfoo", "-Lpath", "-Wl,x", StartGroup, "-la", EndGroup, "-lm">>,
    <<"-Wl,--whole-archive,libfoo.a", "-lm">>,
    <<"-o", "-lfoo", "-lbar.c", "-E", "-lm">> }

TokenLists == UNION {[1..n -> Tokens] : n \in 0..MaxLen} \cup Examples

\* The characters of the source paths and the paths themselves.
PathChars == {"x", "c", ".", "/"}

RECURSIVE Concat(_)
Concat(ss) == IF ss = << >> THEN "" ELSE Head(ss) \o Concat(Tail(ss))

SrcFiles ==
  {Concat(cs) : cs \in UNION {[1..n -> PathChars] : n \in 0..MaxPath}}
    \cup {"dir/x.cpp", "foo.c", "/a/b.tar.gz"}

\* The token lists whose objects are asked for artifact names.
NamesLists ==
  { <<"-c", "foo.c">>,
    <<"-c", StartGroup, "a.o", "-O2", EndGroup, "d/x.c", "-lm", "-o", "out">> }

\* exactMatches={} and patternMatches={}, the default arguments.
NoExactMatches == << >>

NoPatternMatches == << >>

\* Tables a caller passes: an exact rule that shadows a default one (and a
\* default pattern), an exact rule for the group's start marker, an exact
\* rule for a flag the defaults do not know, a binary pattern rule, and a
\* pattern rule that replaces a default one.
CallerExactMatches ==
  ("-O2" :> Rule(0, "compileUnaryCallback")) @@
  (StartGroup :> Rule(0, "linkUnaryCallback")) @@
  ("-M" :> Rule(0, "dependencyOnlyCallback"))

CallerPatternMatches ==
  << PatRule(PatSearchFlag, 1, "compileBinaryCallback"),
     PatRule(PatObject, 0, "linkUnaryCallback") >>

Overrides ==
  { <<NoExactMatches, NoPatternMatches>>,
    <<CallerExactMatches, CallerPatternMatches>> }

(***************************************************************************)
(* The state machine.                                                      *)
(*   inputList, exactMatches, patternMatches: the constructor's arguments  *)
(*   self: the object's fields (inputArgs is self._inputArgs)              *)
(*   pc: "parsing" in the loop, "done" once constructed, "error" when      *)
(*       IndexError left the constructor                                   *)
(*   places: for each token popped so far, in order, the place it took:    *)
(*       "flag" (matched by a rule), "argument" (popped by _shiftArgs),    *)
(*       "group" (collected into a linker group) or "default"              *)
(*   ret: the last query's call and what it gave back                      *)
(***************************************************************************)
VARIABLES inputList, exactMatches, patternMatches, self, pc, places, ret

vars == <<inputList, exactMatches, patternMatches, self, pc, places, ret>>

NoCall == [call |-> "", args |-> << >>, raised |-> "", value |-> << >>]

CallWith(name, args, r) ==
  [call |-> name, args |-> args, raised |-> r.raised, value |-> r.value]

Call(name, r) == CallWith(name, << >>, r)

Exact == argExactMatches(exactMatches)

Patterns == argPatterns(patternMatches)

DefaultTables ==
  exactMatches = NoExactMatches /\ patternMatches = NoPatternMatches

Init ==
  /\ inputList \in TokenLists
  /\ \E o \in Overrides : exactMatches = o[1] /\ patternMatches = o[2]
  /\ self = NewFilter(inputList)
  /\ pc = "parsing"
  /\ places = << >>
  /\ ret = NoCall

\* The arm of the loop body that takes the front token.
Arm == Branch(Head(self.inputArgs), Exact, Patterns)

\* One iteration of the loop body on the object.
Iterate ==
  LET r == LoopBody(self, Exact, Patterns)
  IN  /\ self' = r.self
      /\ pc' = IF r.raised THEN "error" ELSE "parsing"
      /\ places' = places \o r.places
      /\ UNCHANGED <<inputList, exactMatches, patternMatches, ret>>

\* An iteration whose front token is a key of the exact-match table.
ExactMatch ==
  /\ pc = "parsing"
  /\ LoopCond(self)
  /\ Arm = "exact"
  /\ Iterate

\* An iteration whose front token starts a linker group.
LinkingGroup ==
  /\ pc = "parsing"
  /\ LoopCond(self)
  /\ Arm = "group"
  /\ Iterate

\* An iteration whose front token matches a pattern.
PatternMatch ==
  /\ pc = "parsing"
  /\ LoopCond(self)
  /\ Arm = "pattern"
  /\ Iterate

\* An iteration whose front token no rule matches.
Unrecognized ==
  /\ pc = "parsing"
  /\ LoopCond(self)
  /\ Arm = "default"
  /\ Iterate

\* The loop condition fails: the constructor returns.
Finish ==
  /\ pc = "parsing"
  /\ ~LoopCond(self)
  /\ pc' = "done"
  /\ UNCHANGED <<inputList, exactMatches, patternMatches, self, places, ret>>

GetOutputFilename ==
  /\ pc = "done"
  /\ ret' = Call("getOutputFilename", getOutputFilename(self))
  /\ UNCHANGED <<inputList, exactMatches, patternMatches, self, pc, places>>

GetBitcodeFileName ==
  /\ pc = "done"
  /\ ret' = Call("getBitcodeFileName", getBitcodeFileName(self))
  /\ UNCHANGED <<inputList, exactMatches, patternMatches, self, pc, places>>

\* getArtifactNames(srcFile, hidden) on a constructed object.
GetArtifactNames ==
  /\ pc = "done"
  /\ \E srcFile \in SrcFiles, hidden \in BOOLEAN :
       ret' = CallWith("getArtifactNames", <<srcFile, hidden>>,
                       getArtifactNames(srcFile, hidden))
  /\ UNCHANGED <<inputList, exactMatches, patternMatches, self, pc, places>>

Next ==
  \/ ExactMatch
  \/ LinkingGroup
  \/ PatternMatch
  \/ Unrecognized
  \/ Finish
  \/ GetOutputFilename
  \/ GetBitcodeFileName

Spec == Init /\ [][Next]_vars

\* The artifact names of source paths, asked of two constructed objects.
NamesInit ==
  /\ inputList \in NamesLists
  /\ DefaultTables
  /\ self = NewFilter(inputList)
  /\ pc = "parsing"
  /\ places = << >>
  /\ ret = NoCall

NamesNext ==
  \/ ExactMatch
  \/ LinkingGroup
  \/ PatternMatch
  \/ Unrecognized
  \/ Finish
  \/ GetArtifactNames

NamesSpec == NamesInit /\ [][NamesNext]_vars

TypeOK ==
  /\ pc \in {"parsing", "done", "error"}
  /\ Len(places) + Len(self.inputArgs) = Len(inputList)

(***************************************************************************)
(* Vocabulary of the properties.                                           *)
(***************************************************************************)
Range(seq) == {seq[i] : i \in DOMAIN seq}

Count(seq, t) == Cardinality({i \in DOMAIN seq : seq[i] = t})

\* a is b with some entries left out.
RECURSIVE IsSubSeq(_, _)
IsSubSeq(a, b) ==
  IF a = << >> THEN TRUE
  ELSE IF b = << >> THEN FALSE
  ELSE IF Head(a) = Head(b) THEN IsSubSeq(Tail(a), Tail(b))
  ELSE IsSubSeq(a, Tail(b))

\* The positions of the list popped so far that took the place, and the
\* tokens at them, in the list's order.
IndicesAt(place) ==
  SelectSeq([i \in 1..Len(places) |-> i], LAMBDA i : places[i] = place)

TokensAt(place) ==
  [k \in 1..Len(IndicesAt(place)) |-> inputList[IndicesAt(place)[k]]]

\* The part of the list not popped yet.
Unpopped == SubSeq(inputList, Len(places) + 1, Len(inputList))

Terminal(s) == s.isPreprocessOnly \/ s.isAssembleOnly

\* The classification a result holds: every field but the remaining queue.
Classification(s) == [s EXCEPT !.inputArgs = << >>]

\* An iteration of the loop body is about to run.
AtFront == pc = "parsing" /\ LoopCond(self)

FrontToken == Head(self.inputArgs)

\* Every popped token has one place and is recorded by that place alone:
\* the queue is the unpopped rest of the list, the default bucket holds the
\* tokens at default places, linkArgs the tokens at group places, the three
\* accumulators of matched flags share out the tokens at flag places (no
\* token twice, none in two of them), and outputFilename is the last
\* trailing argument.
OncePerToken ==
  /\ Len(places) <= Len(inputList)
  /\ self.inputArgs = Unpopped
  /\ self.compileArgs = TokensAt("default")
  /\ self.linkArgs = TokensAt("group")
  /\ IsSubSeq(self.inputFiles, TokensAt("flag"))
  /\ IsSubSeq(self.objectFiles, TokensAt("flag"))
  /\ IsSubSeq(self.forbiddenArgs, TokensAt("flag"))
  /\ \A t \in Range(inputList) :
       Count(self.inputFiles, t) + Count(self.objectFiles, t)
         + Count(self.forbiddenArgs, t) <= Count(TokensAt("flag"), t)
  /\ self.outputFilename =
       IF TokensAt("argument") = << >> THEN None
       ELSE Some(TokensAt("argument")[Len(TokensAt("argument"))])

(***************************************************************************)
(* C1.  With the default rule tables every token popped from the queue is  *)
(* consumed exactly once, in one place (matched flag, trailing argument,   *)
(* bracketed group or default bucket), and a run that ends without -E or   *)
(* -S taken as a flag has popped every token of the list.                  *)
(***************************************************************************)
\* C1 (amended): each popped token has one place and is recorded once;
\* a run that ends without a terminal flag has popped the whole list.
C1_PoppedOnce ==
  DefaultTables =>
    /\ OncePerToken
    /\ (pc = "done" /\ ~Terminal(self) => Len(places) = Len(inputList))

\* C1 as claimed: no token of the list is dropped, whatever the list.
C1_NoTokenDropped ==
  DefaultTables =>
    /\ OncePerToken
    /\ (pc = "done" => Len(places) = Len(inputList))

\* A finished run that put tokens in all four places.
C1_Witness ==
  /\ DefaultTables
  /\ pc = "done"
  /\ ~Terminal(self)
  /\ Len(places) = Len(inputList)
  /\ Range(places) = {"flag", "argument", "group", "default"}

(***************************************************************************)
(* C2.  When -E or -S is taken as a flag (it is the front token of an      *)
(* iteration, with its default rule), classification halts at it: its flag *)
(* is true, no later token is popped, and the classification is the one of *)
(* the list cut after that token.                                          *)
(***************************************************************************)
TerminalRulesDefault ==
  /\ Exact["-E"] = defaultArgExactMatches["-E"]
  /\ Exact["-S"] = defaultArgExactMatches["-S"]

HaltsAt(i) ==
  /\ inputList[i] = "-E" => self.isPreprocessOnly
  /\ inputList[i] = "-S" => self.isAssembleOnly
  /\ Len(places) <= i
  /\ LET cut == Construct(SubSeq(inputList, 1, i), exactMatches, patternMatches)
     IN  ~cut.raised /\ Classification(self) = Classification(cut.self)

\* C2 (amended): -E or -S taken as a flag halts classification at it.
C2_HaltsAtTerminalFlag ==
  TerminalRulesDefault =>
    \A i \in 1..Len(places) :
      places[i] = "flag" /\ inputList[i] \in {"-E", "-S"} => HaltsAt(i)

\* C2 as claimed: -E or -S at any position of the list halts the run there.
C2_HaltsAtAnyPosition ==
  TerminalRulesDefault /\ pc = "done" =>
    \A i \in 1..Len(inputList) :
      inputList[i] \in {"-E", "-S"} => HaltsAt(i)

\* A finished run that classified a token, took -E as a flag and left a
\* token in the queue.
C2_Witness ==
  /\ pc = "done"
  /\ Len(inputList) = 3
  /\ inputList[2] = "-E"
  /\ places = <<"flag", "flag">>
  /\ self.isPreprocessOnly
  /\ self.inputFiles # << >>
  /\ self.inputArgs = <<inputList[3]>>

(***************************************************************************)
(* C3.  Once isPreprocessOnly or isAssembleOnly is true, no step changes   *)
(* the remaining queue, an accumulator, outputFilename or a flag.          *)
(***************************************************************************)
\* C3: a step taken with a terminal flag set leaves the object unchanged.
C3_StopsOnceTerminal == [][Terminal(self) => self' = self]_vars

\* The constructor has returned with a terminal flag set and tokens left.
C3_Witness ==
  /\ pc = "done"
  /\ Terminal(self)
  /\ Len(self.inputArgs) >= 2

(***************************************************************************)
(* C4.  When the rule matched by the front token (exact or pattern) has an *)
(* arity greater than the number of tokens left behind it, the iteration   *)
(* ends in the error state with no handler run (nothing but the queue has  *)
(* changed), and the error state is final: no result, no query.            *)
(***************************************************************************)
FrontRule ==
  IF Arm = "exact" THEN Exact[FrontToken]
  ELSE FirstMatch(Patterns, FrontToken)

Underflow ==
  /\ AtFront
  /\ Arm \in {"exact", "pattern"}
  /\ FrontRule.arity > Len(self.inputArgs) - 1

\* C4: an arity underflow ends in the final error state, no handler run.
C4_UnderflowAborts ==
  [][/\ Underflow => /\ pc' = "error"
                     /\ Classification(self') = Classification(self)
     /\ pc = "error" => pc' = "error" /\ ret' = ret /\ self' = self]_vars

\* The run was aborted by -o as the last token, after a token was classified.
C4_Witness ==
  /\ pc = "error"
  /\ Len(inputList) >= 2
  /\ inputList[Len(inputList)] = "-o"
  /\ places[Len(places)] = "flag"
  /\ self.inputFiles # << >>
  /\ ret = NoCall

(***************************************************************************)
(* C5.  With the default rule tables an optimization token taken as a flag *)
(* is recorded in forbiddenArgs and nowhere else: forbiddenArgs is exactly *)
(* the optimization tokens at flag places, compileArgs holds none, and     *)
(* linkArgs holds only the tokens of bracketed groups.                     *)
(***************************************************************************)
IsOptToken(t) ==
  \/ t \in {"-O", "-O0", "-O1", "-O2", "-O3", "-Os", "-Ofast", "-Og"}
  \/ /\ Len(t) >= 3
     /\ SubSeq(t, 1, 2) = "-O"
     /\ \A i \in 3..Len(t) : SubSeq(t, i, i) \in Digits

\* C5 (amended): optimization tokens taken as flags go to forbiddenArgs
\* only; linkArgs holds group tokens only.
C5_OptFlagsForbidden ==
  DefaultTables =>
    /\ self.forbiddenArgs = SelectSeq(TokensAt("flag"), IsOptToken)
    /\ \A t \in Range(self.compileArgs) : ~IsOptToken(t)
    /\ self.linkArgs = TokensAt("group")

\* C5 as claimed: no optimization token ever reaches compileArgs or
\* linkArgs, and every one of a fully classified list is in forbiddenArgs.
C5_NoOptInCompileOrLink ==
  DefaultTables =>
    /\ \A t \in Range(self.compileArgs) \cup Range(self.linkArgs) :
         ~IsOptToken(t)
    /\ pc = "done" /\ ~Terminal(self) =>
         \A t \in Range(inputList) :
           IsOptToken(t) => Count(self.forbiddenArgs, t) = Count(inputList, t)

\* An exact-match and a pattern-match optimization token were forbidden,
\* and one inside a group went to linkArgs.
C5_Witness ==
  /\ DefaultTables
  /\ pc = "done"
  /\ "-O2" \in Range(self.forbiddenArgs)
  /\ "-O12" \in Range(self.forbiddenArgs)

(***************************************************************************)
(* C6.  When the front token is -Wl,--start-group, it is not a key of the  *)
(* exact-match table, and an end marker follows, one iteration appends the *)
(* tokens from the start marker to the first end marker, in order and      *)
(* unchanged, to linkArgs, changes no other field, and leaves the tokens   *)
(* after the end marker in the queue for the next iteration.               *)
(***************************************************************************)
GroupAhead ==
  /\ AtFront
  /\ FrontToken = StartGroup
  /\ EndGroup \in Range(Tail(self.inputArgs))

\* The place in the queue of the first end marker.
FirstEnd ==
  CHOOSE k \in 1..Len(self.inputArgs) :
    /\ self.inputArgs[k] = EndGroup
    /\ \A j \in 1..(k - 1) : self.inputArgs[j] # EndGroup

GroupEffect ==
  /\ pc' = "parsing"
  /\ self' = [self EXCEPT
                !.linkArgs = @ \o SubSeq(self.inputArgs, 1, FirstEnd),
                !.inputArgs = SubSeq(@, FirstEnd + 1, Len(@))]

\* C6 (amended): a closed group, its start marker not an exact-match key,
\* goes to linkArgs whole in one iteration.
C6_GroupToLinkArgs ==
  [][GroupAhead /\ StartGroup \notin DOMAIN Exact => GroupEffect]_vars

\* C6 as claimed: whatever the exact-match table holds.
C6_GroupAlways == [][GroupAhead => GroupEffect]_vars

\* A group with tokens that other rules match went to linkArgs whole, and
\* the token after it was classified.
C6_Witness ==
  /\ StartGroup \notin DOMAIN Exact
  /\ pc = "done"
  /\ self.linkArgs = <<StartGroup, "a.o", "-O2", EndGroup>>
  /\ self.inputFiles = <<"d/x.c">>
  /\ self.objectFiles = << >>
  /\ self.forbiddenArgs = << >>

(***************************************************************************)
(* C7.  A front token that is a key of the effective exact-match table and *)
(* also matches a pattern is handled by its exact rule alone: the          *)
(* iteration is the one of that rule's arity and handler.                  *)
(***************************************************************************)
ExactAndPattern ==
  /\ AtFront
  /\ FrontToken \in DOMAIN Exact
  /\ Matching(Patterns, FrontToken) # {}

\* C7: the exact rule alone handles a token that a pattern also matches.
C7_ExactBeforePattern ==
  [][ExactAndPattern =>
       LET r == ApplyRule([self EXCEPT !.inputArgs = Tail(@)], FrontToken,
                          Exact[FrontToken])
       IN  self' = r.self /\ (pc' = "error") = r.raised]_vars

\* The caller's exact rule for -O2 ran (compileArgs), not the default
\* pattern's handler (forbiddenArgs).
C7_Witness ==
  /\ exactMatches = CallerExactMatches
  /\ pc = "done"
  /\ inputList = <<"-O2", "-O12">>
  /\ self.compileArgs = <<"-O2">>
  /\ self.forbiddenArgs = <<"-O12">>

(***************************************************************************)
(* C8.  A front token that is no key of the exact-match table, is not the  *)
(* group's start marker and matches no pattern is appended to compileArgs; *)
(* nothing else changes, no trailing token is popped and the loop goes on. *)
(***************************************************************************)
NoRuleMatches ==
  /\ AtFront
  /\ FrontToken \notin DOMAIN Exact
  /\ FrontToken # StartGroup
  /\ \A i \in DOMAIN Patterns : ~ReMatch(Patterns[i].pattern, FrontToken)

\* C8: an unrecognized token is appended to compileArgs and the loop goes on.
C8_UnrecognizedToCompileArgs ==
  [][NoRuleMatches =>
       /\ pc' = "parsing"
       /\ self' = [self EXCEPT !.inputArgs = Tail(@),
                               !.compileArgs = Append(@, FrontToken)]]_vars

\* An unrecognized token was kept and the tokens after it were classified.
C8_Witness ==
  /\ DefaultTables
  /\ pc = "done"
  /\ inputList = <<"-I", "d/x.c", "-c">>
  /\ self.compileArgs = <<"-I">>
  /\ self.inputFiles = <<"d/x.c">>
  /\ self.isCompileOnly

(***************************************************************************)
(* C9.  When the front token is -Wl,--start-group, it is not a key of the  *)
(* exact-match table, and no end marker follows, the iteration does not    *)
(* fail: the start marker and all remaining tokens go to linkArgs in       *)
(* order, the queue is empty and the loop ends.                            *)
(***************************************************************************)
GroupOpen ==
  /\ AtFront
  /\ FrontToken = StartGroup
  /\ EndGroup \notin Range(Tail(self.inputArgs))

OpenGroupEffect ==
  /\ pc' = "parsing"
  /\ ~LoopCond(self')
  /\ self' = [self EXCEPT !.linkArgs = @ \o self.inputArgs,
                          !.inputArgs = << >>]

\* C9 (amended): an unclosed group, its start marker not an exact-match
\* key, goes to linkArgs with every remaining token, without an error.
C9_OpenGroupFlushed ==
  [][GroupOpen /\ StartGroup \notin DOMAIN Exact => OpenGroupEffect]_vars

\* C9 as claimed: whatever the exact-match table holds.
C9_OpenGroupAlways == [][GroupOpen => OpenGroupEffect]_vars

\* The constructor returned after a group that was never closed.
C9_Witness ==
  /\ StartGroup \notin DOMAIN Exact
  /\ pc = "done"
  /\ inputList = <<"-c", StartGroup, "d/x.c">>
  /\ self.linkArgs = <<StartGroup, "d/x.c">>
  /\ self.inputArgs = << >>
  /\ self.inputFiles = << >>
  /\ self.isCompileOnly

(***************************************************************************)
(* C10.  getOutputFilename on a finished result returns the path -o set;   *)
(* otherwise, when isCompileOnly is true, the base name of the first entry *)
(* of inputFiles without its directory and final extension, followed by    *)
(* ".o"; otherwise "a.out".                                                *)
(***************************************************************************)
\* b is f without its directory.
IsBaseNameOf(b, f) ==
  \E k \in 0..Len(f) :
    /\ b = SubSeq(f, k + 1, Len(f))
    /\ \A i \in 1..Len(b) : SubSeq(b, i, i) # "/"
    /\ k > 0 => SubSeq(f, k, k) = "/"

\* r is the base name b without its final extension: the text from the
\* last dot on, when something other than dots stands before that dot.
IsRootOf(r, b) ==
  LET ext(j) == /\ SubSeq(b, j, j) = "."
                /\ \A i \in (j + 1)..Len(b) : SubSeq(b, i, i) # "."
                /\ \E i \in 1..(j - 1) : SubSeq(b, i, i) # "."
  IN  IF \E j \in 1..Len(b) : ext(j)
      THEN \E j \in 1..Len(b) : ext(j) /\ r = SubSeq(b, 1, j - 1)
      ELSE r = b

\* C10: what getOutputFilename returns, by the three cases of the claim.
C10_OutputFilename ==
  ret.call = "getOutputFilename" =>
    /\ ret.raised = ""
    /\ Len(ret.value) = 1
    /\ IF self.outputFilename # None
       THEN ret.value[1] = self.outputFilename[1]
       ELSE IF self.isCompileOnly
       THEN /\ self.inputFiles # << >>
            /\ \E b \in {SubSeq(self.inputFiles[1], k, Len(self.inputFiles[1])) :
                           k \in 1..Len(self.inputFiles[1])} :
                 /\ IsBaseNameOf(b, self.inputFiles[1])
                 /\ \E n \in 0..Len(b) :
                      /\ IsRootOf(SubSeq(b, 1, n), b)
                      /\ ret.value[1] = SubSeq(b, 1, n) \o ".o"
       ELSE ret.value[1] = "a.out"

(***************************************************************************)
(* C11.  The caller's tables only replace the default rule of the same key *)
(* or add a rule.  The rule applied to a front token that is an exact key  *)
(* is the caller's when the caller's table has the key and the default one *)
(* otherwise; the same holds for the pattern that takes a front token; and *)
(* no default key is lost from either table.                               *)
(***************************************************************************)
\* The rule of a pattern table (a sequence) for a key it holds.
PatternRuleOf(table, key) ==
  LET r == table[CHOOSE i \in DOMAIN table : table[i].pattern = key]
  IN  Rule(r.arity, r.handler)

PatternKeys(table) == {table[i].pattern : i \in DOMAIN table}

\* The rule the claim expects for the front token: the caller's for a key
\* of the caller's table, the default one for any other key.
ExpectedRule ==
  IF FrontToken \in DOMAIN Exact
  THEN IF FrontToken \in DOMAIN exactMatches THEN exactMatches[FrontToken]
       ELSE defaultArgExactMatches[FrontToken]
  ELSE LET key == FirstMatch(Patterns, FrontToken).pattern
       IN  IF key \in PatternKeys(patternMatches)
           THEN PatternRuleOf(patternMatches, key)
           ELSE PatternRuleOf(defaultArgPatterns, key)

RuleTaken == AtFront /\ Arm \in {"exact", "pattern"}

\* C11: defaults stay unless shadowed by the caller's rule of the same key.
C11_OverridesShadowOnly ==
  [][/\ DOMAIN defaultArgExactMatches \subseteq DOMAIN Exact
     /\ PatternKeys(defaultArgPatterns) \subseteq PatternKeys(Patterns)
     /\ Cardinality(PatternKeys(Patterns)) = Len(Patterns)
     /\ RuleTaken =>
          LET r == ApplyRule([self EXCEPT !.inputArgs = Tail(@)], FrontToken,
                             ExpectedRule)
          IN  self' = r.self /\ (pc' = "error") = r.raised]_vars

\* Under the caller's tables a default rule (-c), a shadowing exact rule
\* (-O2 kept as a compile argument) and a replaced pattern rule (a.o passed
\* to the linker) were applied in one run.
C11_Witness ==
  /\ exactMatches = CallerExactMatches
  /\ pc = "done"
  /\ inputList = <<"-c", "-O2", "a.o">>
  /\ self.isCompileOnly
  /\ self.compileArgs = <<"-O2">>
  /\ self.linkArgs = <<"a.o">>
  /\ self.objectFiles = << >>

(***************************************************************************)
(* C12.  Under the default tables a front token that ends in an object or  *)
(* library suffix (.o, .lo, .so, .a, .dylib, or .so followed by version    *)
(* numbers) is appended to objectFiles and to neither inputFiles nor       *)
(* compileArgs.                                                            *)
(***************************************************************************)
\* v is a run of version numbers: one or more groups of a dot and digits.
IsVersion(v) ==
  /\ Len(v) >= 2
  /\ Char(v, 1) = "."
  /\ Char(v, Len(v)) \in Digits
  /\ \A i \in 1..Len(v) : Char(v, i) \in Digits \cup {"."}
  /\ \A i \in 1..(Len(v) - 1) : ~(Char(v, i) = "." /\ Char(v, i + 1) = ".")

HasObjectSuffix(t) ==
  \/ \E suf \in {".o", ".lo", ".so", ".a", ".dylib"} :
       Len(t) > Len(suf) /\ EndsWith(t, suf)
  \/ \E k \in 4..(Len(t) - 2) :
       EndsWith(SliceTo(t, k), ".so") /\ IsVersion(SliceFrom(t, k))

\* The tokens popped so far as front tokens outside a group, in order.
FrontTokens ==
  LET idx == SelectSeq([i \in 1..Len(places) |-> i],
                       LAMBDA i : places[i] \in {"flag", "default"})
  IN  [k \in 1..Len(idx) |-> inputList[idx[k]]]

\* C12: object and library files go to objectFiles and nowhere else.
C12_ObjectSuffixToObjectFiles ==
  DefaultTables =>
    /\ IsSubSeq(SelectSeq(FrontTokens, HasObjectSuffix), self.objectFiles)
    /\ \A t \in Range(self.inputFiles) \cup Range(self.compileArgs) :
         ~HasObjectSuffix(t)

(***************************************************************************)
(* C13.  Classifying the compileArgs of a successful classification again, *)
(* with the same tables, gives those compileArgs back and nothing else:    *)
(* the other accumulators empty, no flag and no outputFilename set.        *)
(***************************************************************************)
\* CopaArgumentListFilter(self.compileArgs, exactMatches, patternMatches)
Reclassified == Construct(self.compileArgs, exactMatches, patternMatches)

Idempotent ==
  /\ ~Reclassified.raised
  /\ Reclassified.self =
       [NewFilter(<< >>) EXCEPT !.compileArgs = self.compileArgs]

\* C13 as stated, for any rule table.
C13_IdempotentAnyTable == pc = "done" => Idempotent

\* C13: idempotent on compileArgs under the default tables.
C13_IdempotentDefaultTables == (pc = "done" /\ DefaultTables) => Idempotent

\* A run under the default tables that collected a linker group and kept
\* four tokens as compile arguments, which classify to themselves.
C13_Witness ==
  /\ DefaultTables
  /\ pc = "done"
  /\ inputList = <<"-lfoo", "-Lpath", "-Wl,x", StartGroup, "-la", EndGroup, "-lm">>
  /\ self.compileArgs = <<"-lfoo", "-Lpath", "-Wl,x", "-lm">>
  /\ self.linkArgs # << >>
  /\ Idempotent

(***************************************************************************)
(* C14.  getArtifactNames(srcFile, hidden) returns the pair of the         *)
(* object's name, <root>.o or .<root>.o when hidden, and the bitcode's     *)
(* name .<root>.o.bc, where root is srcFile's base name without directory  *)
(* and without final extension; the call changes no field of the object.   *)
(* The final extension is the text from the last dot of the base name on,  *)
(* when something other than dots stands before that dot.                  *)
(***************************************************************************)
ArtifactNamesOf(srcFile, hidden, value) ==
  \E k \in 0..Len(srcFile) :
    LET b == SubSeq(srcFile, k + 1, Len(srcFile))
    IN  /\ IsBaseNameOf(b, srcFile)
        /\ \E j \in 0..Len(b) :
             LET root == SubSeq(b, 1, j)
             IN  /\ IsRootOf(root, b)
                 /\ value = << (IF hidden THEN "." ELSE "") \o root \o ".o",
                               "." \o root \o ".o.bc" >>

\* C14: the names returned, and the object left as it was.
C14_ArtifactNames ==
  [][ret'.call = "getArtifactNames" =>
       /\ ret'.raised = ""
       /\ ArtifactNamesOf(ret'.args[1], ret'.args[2], ret'.value)
       /\ self' = self]_vars

\* The claim's example on an object that holds a classification.
C14_Witness ==
  /\ ret.call = "getArtifactNames"
  /\ ret.args = <<"dir/x.cpp", TRUE>>
  /\ ret.value = <<".x.o", ".x.o.bc">>
  /\ self.inputFiles = <<"d/x.c">>

(***************************************************************************)
(* C15.  inputFiles only grows by appending: its value before a step is a  *)
(* prefix of its value after, the entry a step appends is the front token  *)
(* of that step, and so inputFiles lists tokens of the list in their order *)
(* of appearance.                                                          *)
(***************************************************************************)
IsPrefix(a, b) == Len(a) <= Len(b) /\ SubSeq(b, 1, Len(a)) = a

\* C15: inputFiles is append-only and in the list's order.
C15_InputFilesAppendOnly ==
  [][/\ IsPrefix(self.inputFiles, self'.inputFiles)
     /\ self'.inputFiles # self.inputFiles =>
          /\ AtFront
          /\ self'.inputFiles = Append(self.inputFiles, FrontToken)
     /\ IsSubSeq(self'.inputFiles, SubSeq(inputList, 1, Len(places')))]_vars

\* Two source files around a flag, recorded in their order.
C15_Witness ==
  /\ pc = "done"
  /\ inputList = <<"y.s", "-c", "d/x.c">>
  /\ self.inputFiles = <<"y.s", "d/x.c">>

(***************************************************************************)
(* C16.  Every iteration of the loop removes at least one token from the   *)
(* queue and adds none, so the constructor ends, with a result or with the *)
(* arity error, after at most as many iterations as the list has tokens.   *)
(* The bound makes this a safety property: the queue strictly decreases,   *)
(* so the loop condition of line 114 fails after at most that many         *)
(* iterations.                                                             *)
(***************************************************************************)
IsSuffix(a, b) ==
  Len(a) <= Len(b) /\ SubSeq(b, Len(b) - Len(a) + 1, Len(b)) = a

Ended == pc \in {"done", "error"}

\* C16: every iteration shrinks the queue to a suffix of itself and
\* accounts for at least one popped token, the popped tokens are never
\* more than the list's, and an ended constructor takes no further step.
C16_Terminates ==
  [][/\ AtFront =>
          /\ Len(self'.inputArgs) < Len(self.inputArgs)
          /\ IsSuffix(self'.inputArgs, self.inputArgs)
          /\ Len(places') > Len(places)
     /\ Len(places') + Len(self'.inputArgs) <= Len(inputList')
     /\ Ended => pc' = pc /\ self' = self]_vars

\* Nine tokens classified in five iterations.
C16_Witness ==
  /\ pc = "done"
  /\ inputList = <<"-c", StartGroup, "a.o", "-O2", EndGroup, "d/x.c", "-lm",
                   "-o", "out">>
  /\ self.inputArgs = << >>
  /\ Len(places) = 9
  /\ Cardinality({i \in 1..9 : places[i] \in {"flag", "default"}}) = 4

(***************************************************************************)
(* C17.  The order of the exact-match table and the bracketed-group rule   *)
(* on a front token -Wl,--start-group.  The claim puts the group rule      *)
(* first; the loop body tests the exact-match table first, so the group is *)
(* collected only when the marker is not an exact-match key.               *)
(***************************************************************************)
StartGroupAtFront == AtFront /\ FrontToken = StartGroup

GroupCollected ==
  IF EndGroup \in Range(Tail(self.inputArgs)) THEN GroupEffect
  ELSE OpenGroupEffect

\* C17 as claimed: the group rule comes first.
C17_GroupBeforeExact == [][StartGroupAtFront => GroupCollected]_vars

\* C17 (amended): an exact rule for the start marker is applied as any
\* exact rule and no group is collected; without one the group is collected.
C17_ExactBeforeGroup ==
  [][StartGroupAtFront =>
       IF StartGroup \in DOMAIN Exact
       THEN LET r == ApplyRule([self EXCEPT !.inputArgs = Tail(@)],
                               StartGroup, Exact[StartGroup])
            IN  self' = r.self /\ (pc' = "error") = r.raised
       ELSE GroupCollected]_vars

\* Under a caller's exact rule for the start marker the marker alone went to
\* linkArgs, and the tokens after it were classified one by one.
C17_Witness ==
  /\ StartGroup \in DOMAIN Exact
  /\ pc = "done"
  /\ inputList = <<StartGroup, "d/x.c", EndGroup>>
  /\ self.linkArgs = <<StartGroup>>
  /\ self.inputFiles = <<"d/x.c">>
  /\ self.compileArgs = <<EndGroup>>

(***************************************************************************)
(* C18.  Under the default tables isAssembly is true exactly when          *)
(* inputFiles holds an entry whose suffix is .s or .S, in every reachable  *)
(* state; a source file of another suffix leaves isAssembly as it was.     *)
(***************************************************************************)
HasAssemblySuffix(f) ==
  Len(f) >= 2 /\ SubSeq(f, Len(f) - 1, Len(f)) \in {".s", ".S"}

\* C18: isAssembly tells whether an assembly source is among the inputs.
C18_IsAssemblyIffAssemblyInput ==
  DefaultTables =>
    (self.isAssembly <=>
       \E i \in DOMAIN self.inputFiles : HasAssemblySuffix(self.inputFiles[i]))

\* An assembly source and a C source: isAssembly is set by the first and
\* kept by the second.
C18_Witness ==
  /\ DefaultTables
  /\ pc = "done"
  /\ inputList = <<"boot.S", "d/x.c">>
  /\ self.inputFiles = <<"boot.S", "d/x.c">>
  /\ self.isAssembly

(***************************************************************************)
(* C19.  getOutputFilename and getBitcodeFileName return a file name for   *)
(* every result the constructor can produce, also for a compile-only       *)
(* result without -o and without input files.                              *)
(***************************************************************************)
\* C19: the two queries return a name, whatever the result.
C19_QueriesReturn ==
  ret.call \in {"getOutputFilename", "getBitcodeFileName"} =>
    /\ ret.raised = ""
    /\ Len(ret.value) = 1
    /\ Len(ret.value[1]) > 0

(***************************************************************************)
(* C20.  Under the default tables linkArgs holds the tokens of the         *)
(* bracketed groups collected so far, in order, and nothing else; it is    *)
(* empty when the list has no start marker; and a -l, -L or -Wl, token     *)
(* outside a group goes to compileArgs.  The last part holds of the tokens *)
(* the loop reaches as front tokens (not those popped as the trailing      *)
(* argument of a flag such as -o, nor those left unread after -E or -S)    *)
(* and that match no rule: one that ends in a source or object suffix is   *)
(* taken by that pattern's rule, into inputFiles or objectFiles.           *)
(***************************************************************************)
IsLinkerStyle(t) ==
  \E pre \in {"-l", "-L", "-Wl,"} : Len(t) > Len(pre) /\ StartsWith(t, pre)

MatchesDefaultRule(t) ==
  \/ t \in DOMAIN defaultArgExactMatches
  \/ \E i \in DOMAIN defaultArgPatterns :
       ReMatch(defaultArgPatterns[i].pattern, t)

GroupsOnly ==
  /\ self.linkArgs = TokensAt("group")
  /\ self.linkArgs # << >> => Head(self.linkArgs) = StartGroup
  /\ StartGroup \notin Range(inputList) => self.linkArgs = << >>

\* C20 as claimed, read of the front tokens: every linker-style token
\* outside a group is a compile argument.
C20_LinkerStyleAllToCompileArgs ==
  DefaultTables =>
    /\ GroupsOnly
    /\ SelectSeq(FrontTokens, IsLinkerStyle)
         = SelectSeq(self.compileArgs, IsLinkerStyle)

\* C20 (amended): of the linker-style tokens reached as front tokens
\* outside a group, those that match no rule are the linker-style compile
\* arguments, and those that match a rule are input or object files.
C20_LinkArgsGroupsOnly ==
  DefaultTables =>
    /\ GroupsOnly
    /\ SelectSeq(FrontTokens,
                 LAMBDA t : IsLinkerStyle(t) /\ ~MatchesDefaultRule(t))
         = SelectSeq(self.compileArgs, IsLinkerStyle)
    /\ LET taken == SelectSeq(FrontTokens,
                              LAMBDA t : IsLinkerStyle(t)
                                         /\ MatchesDefaultRule(t))
       IN  /\ Range(taken) \subseteq
                Range(self.inputFiles) \cup Range(self.objectFiles)
           /\ Len(taken) = Len(SelectSeq(self.inputFiles, IsLinkerStyle))
                           + Len(SelectSeq(self.objectFiles, IsLinkerStyle))

\* Linker flags reached as front tokens before and after a group: the
\* group in linkArgs, the flags in compileArgs.
C20_Witness ==
  /\ DefaultTables
  /\ pc = "done"
  /\ FrontTokens = <<"-lfoo", "-Lpath", "-Wl,x", "-lm">>
  /\ self.linkArgs = <<StartGroup, "-la", EndGroup>>
  /\ self.compileArgs = <<"-lfoo", "-Lpath", "-Wl,x", "-lm">>

====
